---- MODULE Spec2Model ----
(***************************************************************************)
(* TruePass: the account / ticket / cart / ledger store of src/app.py and   *)
(* the request handlers that mutate it.  Every handler is one action: a     *)
(* Flask request runs to its commit (or to its rollback) before the next    *)
(* one is taken.  Money amounts and prices are Python floats in the source; *)
(* the inputs drawn here are integer-valued and far below 2^53, where float *)
(* addition, subtraction, multiplication and comparison are exact.          *)
(*                                                                         *)
(* The specifications share the handlers.  Spec runs the account, event     *)
(* and wallet requests from the seeded store.  WholesaleSpec, CheckoutSpec, *)
(* FundsSpec, CartSpec and AccountSpec run the wholesale, retail, funding,  *)
(* cart and account-management requests from stores that are built by      *)
(* applying the handlers to the seeded store.  RaceSpec serves requests in  *)
(* concurrent threads: a request's reads and its commit are two steps.      *)
(***************************************************************************)
EXTENDS Integers, Sequences, FiniteSets, TLC

\* ------------------------------------------------------------- bounds
MaxUsers == 2      \* accounts created after the seeded admin
MaxEvents == 1     \* events created
MaxSupply == 2     \* largest supply of one create_event request
MaxPrice == 2      \* largest price typed into a form
MaxAmount == 3     \* largest amount typed into the wallet forms
MaxQty == 2        \* largest quantity typed into a form
MaxCart == 2       \* cart rows in the store
MaxBalance == 4    \* largest magnitude of an account balance
MaxLedger == 2     \* ledger rows in the store (Spec)
MaxWholesaleLedger == 4   \* ledger rows in the store (WholesaleSpec)
MaxCheckoutLedger == 6    \* ledger rows in the store (CheckoutSpec)
MaxFundsLedger == 4       \* ledger rows in the store (FundsSpec)
MaxInflight == 2           \* requests in flight at once (RaceSpec)
MaxRaceLedger == 6         \* ledger rows in the store (RaceSpec)
MaxStaff == 1             \* staff accounts created in a run (AccountSpec)

\* ------------------------------------------- constants of the program
None == -99        \* Python None / SQL NULL
SYSTEM == -1       \* the synthetic source "SYSTEM" of a MINT entry
BANK == -2         \* the synthetic endpoint "BANK" of TOPUP / WITHDRAW
ADMIN_ROOT_AUTHORITY == 0   \* the seeded admin's wallet address

VARIABLES users, nextAddr, events, tickets, cart, ledger, last, inflight

vars == <<users, nextAddr, events, tickets, cart, ledger, last, inflight>>
store == <<users, nextAddr, events, tickets, cart, ledger>>

\* ------------------------------------------------------------- inputs
Prices == 1..MaxPrice
Amounts == {-1, 0, MaxAmount}
Qtys == (-1)..MaxQty
Supplies == 0..MaxSupply
EventIds == 1..MaxEvents
RoleNames == {"admin", "organizer", "reseller", "customer"}

\* ------------------------------------------------------------ helpers
Min(a, b) == IF a < b THEN a ELSE b

MaxOf(S) == IF S = {} THEN 0 ELSE CHOOSE y \in S : \A z \in S : z <= y

\* A query that ignores its LIMIT.
Unlimited(rows, n) == rows

\* SQLite: a negative LIMIT means no upper bound on the rows returned.
Limit(rows, n) == IF n < 0 THEN rows ELSE SubSeq(rows, 1, Min(n, Len(rows)))

\* The row ids of a table in ascending order (SQLite scans by rowid).
RowIds(table) == [i \in 1..Len(table) |-> i]

\* ------------------------------------------------------------- models
User(id, role, parent) ==
    [id |-> id, role |-> role, parent_address |-> parent,
     balance |-> 0, is_active |-> TRUE]

Event(creator, wholesale, cap) ==
    [creator_address |-> creator, wholesale_price |-> wholesale,
     max_resale_price |-> cap]

Ticket(evt, owner, listed, price) ==
    [event_id |-> evt, owner_address |-> owner, is_listed |-> listed,
     listing_price |-> price]

CartItem(uid, evt, reseller, qty, price) ==
    [user_id |-> uid, event_id |-> evt, reseller_address |-> reseller,
     quantity |-> qty, price_per_item |-> price]

Transaction(tx_hash, t_id, evt_name, f_addr, t_addr, amt, t_type) ==
    [tx_hash |-> tx_hash, ticket_id |-> t_id, event_name |-> evt_name,
     from_address |-> f_addr, to_address |-> t_addr, amount |-> amt,
     type |-> t_type]

\* log_ledger adds one row to the transaction table.
log_ledger(lg, tx_hash, t_id, evt_name, f_addr, t_addr, amt, t_type) ==
    Append(lg, Transaction(tx_hash, t_id, evt_name, f_addr, t_addr, amt, t_type))

\* secrets.token_hex: a token no earlier ledger row carries.
token_hex(lg) == Len(lg) + 1

\* The primary key SQLite gives a new user row: the largest rowid plus one.
NewUserId(us) == MaxOf({us[a].id : a \in DOMAIN us}) + 1

\* The request just handled: its handler, the authenticated principal, the
\* form values and the branch the handler left through.
Request(op, actor, evt, qty, price, amt, target, result) ==
    [op |-> op, actor |-> actor, evt |-> evt, qty |-> qty, price |-> price,
     amt |-> amt, target |-> target, result |-> result]

\* ------------------------------------------------------------ the store
\* The committed database, as one value a handler reads and returns.
db == [users |-> users, nextAddr |-> nextAddr, events |-> events,
       tickets |-> tickets, cart |-> cart, ledger |-> ledger]

\* A handler's outcome: the database it leaves and the branch it took.
Outcome(s, result) == [db |-> s, result |-> result]

\* db.session.add(User(...)): a new row with a freshly generated address.
AddUser(s, role, parent) ==
    [s EXCEPT !.users = [a \in DOMAIN s.users \cup {s.nextAddr} |->
                            IF a = s.nextAddr
                            THEN User(NewUserId(s.users), role, parent)
                            ELSE s.users[a]],
              !.nextAddr = @ + 1]

\* ------------------------------------------------------------ register
register(s) == Outcome(AddUser(s, "customer", None), "ok")

\* ------------------------------------------------------------ create_staff
StaffAllowed(actor_role, target_role) ==
    \/ actor_role = "admin" /\ target_role = "organizer"
    \/ actor_role = "organizer" /\ target_role = "reseller"

create_staff(s, a, target_role) ==
    IF ~StaffAllowed(s.users[a].role, target_role)
    THEN Outcome(s, "denied")
    ELSE Outcome(AddUser(s, target_role, a), "ok")

\* ------------------------------------------------------------ manage_user
\* A permission logic that lets an organizer manage every reseller.
ManageAnyReseller(us, a, t) ==
    \/ us[a].role = "admin" /\ us[t].role = "organizer"
    \/ us[a].role = "organizer" /\ us[t].role = "reseller"

ManageAllowed(us, a, t) ==
    \/ us[a].role = "admin" /\ us[t].role = "organizer"
    \/ /\ us[a].role = "organizer"
       /\ us[t].role = "reseller"
       /\ us[t].parent_address = a

\* db.session.delete(target_user) followed by the commit: the row goes.
\* The call inside the try block only marks the row; it raises nothing, and
\* SQLite (the configured engine) does not enforce the foreign keys that
\* point at user.wallet_address.
DeleteUser(us, t) == [a \in DOMAIN us \ {t} |-> us[a]]

manage_user(s, a, t, action) ==
    IF ~ManageAllowed(s.users, a, t)
    THEN Outcome(s, "denied")
    ELSE IF action = "toggle"
    THEN Outcome([s EXCEPT !.users[t].is_active = ~@], "toggled")
    ELSE Outcome([s EXCEPT !.users = DeleteUser(@, t)], "deleted")

\* ------------------------------------------------------------ create_event
\* The tickets of range(supply): none when supply <= 0.
Minted(evt_id, owner, wholesale, supply) ==
    [i \in 1..supply |-> Ticket(evt_id, owner, TRUE, wholesale)]

create_event(s, a, wholesale, cap, supply) ==
    IF s.users[a].role # "organizer"
    THEN Outcome(s, "denied")
    ELSE LET evt_id == Len(s.events) + 1
             tx_hash == token_hex(s.ledger)
         IN Outcome(
              [s EXCEPT
                 !.events = Append(@, Event(a, wholesale, cap)),
                 !.tickets = @ \o Minted(evt_id, a, wholesale, supply),
                 !.ledger = IF supply >= 1
                            THEN log_ledger(@, tx_hash, None, evt_id, SYSTEM, a, 0, "MINT")
                            ELSE @],
              "ok")

\* ------------------------------------------------------------ wallet
wallet(s, a, amt) ==
    Outcome([s EXCEPT
               !.users[a].balance = @ + amt,
               !.ledger = log_ledger(@, token_hex(@), None, None, BANK, a, amt, "TOPUP")],
            "ok")

\* ------------------------------------------------------------ withdraw
\* A handler that refuses to empty the account.
WithdrawBelow(amt, balance) == amt < balance

\* if amt <= current_user.balance
WithdrawOk(amt, balance) == amt <= balance

withdraw(s, a, amt) ==
    IF s.users[a].role # "organizer"
    THEN Outcome(s, "denied")
    ELSE IF WithdrawOk(amt, s.users[a].balance)
    THEN Outcome([s EXCEPT
                    !.users[a].balance = @ - amt,
                    !.ledger = log_ledger(@, token_hex(@), None, None, a, BANK, amt, "WITHDRAW")],
                 "ok")
    ELSE Outcome(s, "insufficient_funds")

\* ------------------------------------------------------------ cart
\* CartItem.query.filter_by(user_id=...).all(): the caller's rows, by id.
CartOf(rows, uid) == SelectSeq(rows, LAMBDA i : i.user_id = uid)

\* A total that forgets the quantities.
RECURSIVE CartTotalOfPrices(_)
CartTotalOfPrices(rows) ==
    IF rows = <<>> THEN 0
    ELSE Head(rows).price_per_item + CartTotalOfPrices(Tail(rows))

\* sum(i.quantity * i.price_per_item for i in cart)
RECURSIVE CartTotal(_)
CartTotal(rows) ==
    IF rows = <<>> THEN 0
    ELSE Head(rows).quantity * Head(rows).price_per_item + CartTotal(Tail(rows))

\* filter_by(user_id, event_id, price_per_item).first(): the row index, or 0.
\* The source address is not part of the lookup.
ExistingItem(rows, uid, e_id, price) ==
    LET hits == SelectSeq(RowIds(rows), LAMBDA i :
                    /\ rows[i].user_id = uid
                    /\ rows[i].event_id = e_id
                    /\ rows[i].price_per_item = price)
    IN IF hits = <<>> THEN 0 ELSE Head(hits)

add_to_cart(s, a, e_id, reseller, price, qty) ==
    LET uid == s.users[a].id
        exist == ExistingItem(s.cart, uid, e_id, price)
    IN IF exist # 0
       THEN Outcome([s EXCEPT !.cart[exist].quantity = @ + qty], "updated")
       ELSE Outcome([s EXCEPT !.cart = Append(@, CartItem(uid, e_id, reseller, qty, price))],
                    "added")

\* CartItem.query.filter_by(id=item_id, user_id=current_user.id).delete()
remove_cart(s, a, item_id) ==
    IF item_id \in 1..Len(s.cart) /\ s.cart[item_id].user_id = s.users[a].id
    THEN Outcome([s EXCEPT !.cart = SubSeq(@, 1, item_id - 1) \o
                                     SubSeq(@, item_id + 1, Len(@))], "removed")
    ELSE Outcome(s, "none")

\* ------------------------------------------------------------ checkout
\* Ticket.query.filter_by(owner_address, event_id, is_listed=True,
\* listing_price): the matching ticket ids in ascending order.
ListedAt(tks, owner, e_id, price) ==
    SelectSeq(RowIds(tks), LAMBDA i :
        /\ tks[i].owner_address = owner
        /\ tks[i].event_id = e_id
        /\ tks[i].is_listed
        /\ tks[i].listing_price = price)

\* A transfer that leaves the units on the market.
TransferAssetsStillListed(s, sel, tx_hash, evt_name, f_addr, new_owner, amt, t_type) ==
    [s EXCEPT
       !.tickets = [i \in 1..Len(@) |->
                      IF \E k \in 1..Len(sel) : sel[k] = i
                      THEN [@[i] EXCEPT !.owner_address = new_owner]
                      ELSE @[i]],
       !.ledger = @ \o [k \in 1..Len(sel) |->
                          Transaction(tx_hash, sel[k], evt_name, f_addr, new_owner,
                                      amt, t_type)]]

\* A transfer that puts its ledger rows in front of the earlier ones.
TransferAssetsLogsFirst(s, sel, tx_hash, evt_name, f_addr, new_owner, amt, t_type) ==
    [s EXCEPT
       !.tickets = [i \in 1..Len(@) |->
                      IF \E k \in 1..Len(sel) : sel[k] = i
                      THEN Ticket(@[i].event_id, new_owner, FALSE, None)
                      ELSE @[i]],
       !.ledger = [k \in 1..Len(sel) |->
                     Transaction(tx_hash, sel[k], evt_name, f_addr, new_owner,
                                 amt, t_type)] \o @]

\* "for t in tickets": each selected unit goes to new_owner, unlisted and
\* without price, and one ledger row is logged for it.
TransferAssets(s, sel, tx_hash, evt_name, f_addr, new_owner, amt, t_type) ==
    [s EXCEPT
       !.tickets = [i \in 1..Len(@) |->
                      IF \E k \in 1..Len(sel) : sel[k] = i
                      THEN Ticket(@[i].event_id, new_owner, FALSE, None)
                      ELSE @[i]],
       !.ledger = @ \o [k \in 1..Len(sel) |->
                          Transaction(tx_hash, sel[k], evt_name, f_addr, new_owner,
                                      amt, t_type)]]

\* The loop over the cart rows inside the try block.  The session flushes
\* before each query, so a row sees what the rows before it did.  A raise
\* leaves the loop with the work of the earlier rows still in the session.
RECURSIVE CheckoutItems(_, _, _, _)
CheckoutItems(s, items, buyer, order_hash) ==
    IF items = <<>> THEN [raised |-> FALSE, db |-> s]
    ELSE LET item == Head(items)
             sel == Limit(ListedAt(s.tickets, item.reseller_address, item.event_id,
                                   item.price_per_item), item.quantity)
         IN IF Len(sel) < item.quantity
            THEN [raised |-> TRUE, db |-> s]      \* "Stock changed during checkout."
            ELSE IF item.reseller_address \notin DOMAIN s.users
            THEN [raised |-> TRUE, db |-> s]      \* seller is None
            ELSE IF item.event_id \notin 1..Len(s.events)
            THEN [raised |-> TRUE,                \* Event.query.get(...) is None
                  db |-> [s EXCEPT !.users[item.reseller_address].balance =
                                      @ + item.quantity * item.price_per_item]]
            ELSE CheckoutItems(
                   TransferAssets(
                     [s EXCEPT !.users[item.reseller_address].balance =
                                  @ + item.quantity * item.price_per_item],
                     sel, order_hash, item.event_id, item.reseller_address, buyer,
                     item.price_per_item, "PURCHASE"),
                   Tail(items), buyer, order_hash)

\* A handler that forgets to roll back: the session's work stays.
RollbackKeepsSession(committed, session) == session

\* except Exception: db.session.rollback() discards the session's work.
Rollback(committed, session) == committed

checkout(s, a) ==
    LET uid == s.users[a].id
        items == CartOf(s.cart, uid)
        total == CartTotal(items)
        order_hash == token_hex(s.ledger)
        run == CheckoutItems([s EXCEPT !.users[a].balance = @ - total],
                             items, a, order_hash)
    IN IF items = <<>> THEN Outcome(s, "empty")
       ELSE IF s.users[a].balance < total THEN Outcome(s, "insufficient_balance")
       ELSE IF run.raised THEN Outcome(Rollback(s, run.db), "failed")
       ELSE Outcome([run.db EXCEPT !.cart = SelectSeq(@, LAMBDA i : i.user_id # uid)],
                    "ok")

\* ------------------------------------------------------------ bulk_acquire
\* Ticket.query.filter_by(event_id, owner_address, is_listed=True)
ListedBy(tks, owner, e_id) ==
    SelectSeq(RowIds(tks), LAMBDA i :
        /\ tks[i].event_id = e_id
        /\ tks[i].owner_address = owner
        /\ tks[i].is_listed)

\* A handler that accepts any source.
HierarchyAny(event, user) == TRUE

\* Security: Hierarchy Check
HierarchyOk(event, user) == event.creator_address = user.parent_address

FundsOk(balance, cost) == ~(balance < cost)

\* A handler that takes whatever stock there is.
StockAny(sel, qty) == TRUE

StockOk(sel, qty) == ~(Len(sel) < qty)

bulk_acquire(s, a, evt_id, qty) ==
    IF s.users[a].role # "reseller" THEN Outcome(s, "denied")
    ELSE IF evt_id \notin 1..Len(s.events) THEN Outcome(s, "error")
    ELSE LET event == s.events[evt_id]
             cost == event.wholesale_price * qty
             sel == Limit(ListedBy(s.tickets, event.creator_address, evt_id), qty)
         IN IF ~HierarchyOk(event, s.users[a]) THEN Outcome(s, "unauthorized_source")
            ELSE IF ~FundsOk(s.users[a].balance, cost) THEN Outcome(s, "insufficient_funds")
            ELSE IF ~StockOk(sel, qty) THEN Outcome(s, "no_stock")
            \* organizer is None: the request dies before its commit
            ELSE IF event.creator_address \notin DOMAIN s.users THEN Outcome(s, "error")
            ELSE Outcome(
                   TransferAssets(
                     [s EXCEPT !.users[a].balance = @ - cost,
                               !.users[event.creator_address].balance = @ + cost],
                     sel, token_hex(s.ledger), evt_id, event.creator_address, a,
                     event.wholesale_price, "WHOLESALE"),
                   "ok")

\* ------------------------------------------------------------ bulk_list
\* Ticket.query.filter_by(event_id, owner_address, is_listed=False)
UnlistedBy(tks, owner, e_id) ==
    SelectSeq(RowIds(tks), LAMBDA i :
        /\ tks[i].event_id = e_id
        /\ tks[i].owner_address = owner
        /\ ~tks[i].is_listed)

\* A handler that also refuses the cap itself.
CapReached(price, event) == price >= event.max_resale_price

CapExceeded(price, event) == price > event.max_resale_price

bulk_list(s, a, evt_id, qty, price) ==
    IF evt_id \notin 1..Len(s.events) THEN Outcome(s, "error")
    ELSE IF CapExceeded(price, s.events[evt_id]) THEN Outcome(s, "cap_exceeded")
    ELSE LET sel == Limit(UnlistedBy(s.tickets, a, evt_id), qty)
         IN Outcome([s EXCEPT !.tickets = [i \in 1..Len(@) |->
                                  IF \E k \in 1..Len(sel) : sel[k] = i
                                  THEN Ticket(@[i].event_id, @[i].owner_address, TRUE, price)
                                  ELSE @[i]]],
                    "ok")

\* ------------------------------------------------ requests in flight
\* A request that has done its reads and not yet its commit: what it holds
\* in its own session.  balance is current_user.balance as loaded, items the
\* cart rows as loaded, sel the ticket ids its query returned, other the
\* organizer's balance as loaded.
Pending(op, actor, evt, qty, amt, balance, items, sel, other) ==
    [op |-> op, actor |-> actor, evt |-> evt, qty |-> qty, amt |-> amt,
     balance |-> balance, items |-> items, sel |-> sel, other |-> other]

Free == Pending("none", None, None, None, None, None, <<>>, <<>>, None)

Slots == 1..MaxInflight

\* The reads of a handler, up to its first write.  SQLite runs the SELECTs
\* of a pysqlite connection outside any transaction: they take no lock that
\* outlives the statement, so another request may commit after them.
\* passed is FALSE when the handler returns from these lines.
checkout_read(s, a) ==
    LET items == CartOf(s.cart, s.users[a].id)
    IN [passed |-> items # <<>> /\ ~(s.users[a].balance < CartTotal(items)),
        pending |-> Pending("checkout", a, None, None, None,
                            s.users[a].balance, items, <<>>, None)]

\* The try block of checkout.  The debit is flushed before the first ticket
\* query, which starts the write transaction: from there to the commit no
\* other request commits, and the ticket and seller queries see the
\* committed store.  current_user and the cart rows are the objects loaded
\* by the reads; the balance is written back as loaded-minus-total.
checkout_write(s, p) ==
    LET a == p.actor
        mine == [s EXCEPT !.users[a].balance = p.balance]
        total == CartTotal(p.items)
        run == CheckoutItems([mine EXCEPT !.users[a].balance = @ - total],
                             p.items, a, token_hex(s.ledger))
    IN IF run.raised THEN Outcome(Rollback(s, run.db), "failed")
       ELSE Outcome([run.db EXCEPT
                       !.cart = SelectSeq(@, LAMBDA i : i.user_id # s.users[a].id)],
                    "ok")

\* bulk_acquire up to the organizer lookup: the checks, the ticket query and
\* the two balances are read before anything is written.
bulk_acquire_read(s, a, evt_id, qty) ==
    LET event == s.events[evt_id]
        sel == Limit(ListedBy(s.tickets, event.creator_address, evt_id), qty)
    IN [passed |-> /\ s.users[a].role = "reseller"
                   /\ HierarchyOk(event, s.users[a])
                   /\ FundsOk(s.users[a].balance, event.wholesale_price * qty)
                   /\ StockOk(sel, qty)
                   /\ event.creator_address \in DOMAIN s.users,
        pending |-> Pending("bulk_acquire", a, evt_id, qty, None,
                            s.users[a].balance, <<>>, sel,
                            IF event.creator_address \in DOMAIN s.users
                            THEN s.users[event.creator_address].balance ELSE None)]

\* The writes of bulk_acquire, flushed at its commit: both balances from the
\* values loaded, and the loaded ticket objects with their new owner.
bulk_acquire_write(s, p) ==
    LET event == s.events[p.evt]
        cost == event.wholesale_price * p.qty
    IN Outcome(
         TransferAssets(
           [s EXCEPT !.users[p.actor].balance = p.balance - cost,
                     !.users[event.creator_address].balance = p.other + cost],
           p.sel, token_hex(s.ledger), p.evt, event.creator_address, p.actor,
           event.wholesale_price, "WHOLESALE"),
         "ok")

\* wallet: current_user.balance is loaded, then written back plus amt.
wallet_read(s, a, amt) ==
    [passed |-> TRUE,
     pending |-> Pending("wallet", a, None, None, amt, s.users[a].balance,
                         <<>>, <<>>, None)]

wallet_write(s, p) ==
    Outcome([s EXCEPT
               !.users[p.actor].balance = p.balance + p.amt,
               !.ledger = log_ledger(@, token_hex(@), None, None, BANK, p.actor,
                                     p.amt, "TOPUP")],
            "ok")

\* withdraw: the role and the balance are checked on the loaded row, then
\* the balance is written back minus amt.
withdraw_read(s, a, amt) ==
    [passed |-> s.users[a].role = "organizer" /\ WithdrawOk(amt, s.users[a].balance),
     pending |-> Pending("withdraw", a, None, None, amt, s.users[a].balance,
                         <<>>, <<>>, None)]

withdraw_write(s, p) ==
    Outcome([s EXCEPT
               !.users[p.actor].balance = p.balance - p.amt,
               !.ledger = log_ledger(@, token_hex(@), None, None, p.actor, BANK,
                                     p.amt, "WITHDRAW")],
            "ok")

\* ------------------------------------------------------------- Init
\* setup.py seeds one admin; every table is otherwise empty.
Seeded ==
    [users |-> [a \in {ADMIN_ROOT_AUTHORITY} |-> User(1, "admin", None)],
     nextAddr |-> 1, events |-> <<>>, tickets |-> <<>>, cart |-> <<>>,
     ledger |-> <<>>]

\* No request handled yet, or one of a handler the run does not record.
Idle == Request("none", None, None, None, None, None, None, "none")

\* The store holds s and no request has been recorded.
Load(s) ==
    /\ users = s.users
    /\ nextAddr = s.nextAddr
    /\ events = s.events
    /\ tickets = s.tickets
    /\ cart = s.cart
    /\ ledger = s.ledger
    /\ last = Idle
    /\ inflight = [i \in Slots |-> Free]

Init == Load(Seeded)

\* ------------------------------------------------------------- actions
\* The bounds of a run, L: a request that would grow a table past them is
\* not taken.
Within(s, L) ==
    /\ s.nextAddr <= L.users + 1
    /\ Len(s.events) <= L.events
    /\ Len(s.cart) <= L.cart
    /\ Len(s.ledger) <= L.ledger
    /\ \A i \in 1..Len(s.cart) : s.cart[i].quantity \in Qtys
    /\ \A a \in DOMAIN s.users : s.users[a].balance \in (-MaxBalance)..MaxBalance

\* One request: the handler's outcome becomes the committed store.  The run
\* records the requests of the handlers listed in L.record.  L.buyers are
\* the principals whose cart requests the run takes, L.sellers the source
\* wallets they name.
Step(o, L, op, actor, evt, qty, price, amt, target) ==
    /\ Within(o.db, L)
    /\ users' = o.db.users
    /\ nextAddr' = o.db.nextAddr
    /\ events' = o.db.events
    /\ tickets' = o.db.tickets
    /\ cart' = o.db.cart
    /\ ledger' = o.db.ledger
    /\ last' = IF op \in L.record
               THEN Request(op, actor, evt, qty, price, amt, target, o.result)
               ELSE Idle
    /\ UNCHANGED inflight

\* Addresses that have been handed out so far (deleted accounts included).
Known == 0..(nextAddr - 1)

Req_register(L) ==
    \E a \in {nextAddr} :
        Step(register(db), L, "register", a, None, None, None, None, None)

Req_create_staff(L) ==
    \E a \in DOMAIN users, r \in RoleNames :
        Step(create_staff(db, a, r), L, "create_staff", a, None, None, None, None, r)

Req_toggle_user(L) ==
    \E a \in DOMAIN users, t \in DOMAIN users :
        Step(manage_user(db, a, t, "toggle"), L, "toggle", a, None, None, None, None, t)

Req_delete_user(L) ==
    \E a \in DOMAIN users, t \in DOMAIN users :
        Step(manage_user(db, a, t, "delete"), L, "delete", a, None, None, None, None, t)

Req_create_event(L) ==
    \E a \in DOMAIN users, w \in Prices, c \in Prices, n \in Supplies :
        Step(create_event(db, a, w, c, n), L, "create_event", a, None, n, w, c, None)

Req_wallet(L) ==
    \E a \in DOMAIN users, amt \in Amounts :
        Step(wallet(db, a, amt), L, "wallet", a, None, None, None, amt, None)

Req_withdraw(L) ==
    \E a \in DOMAIN users, amt \in Amounts :
        Step(withdraw(db, a, amt), L, "withdraw", a, None, None, None, amt, None)

Req_add_to_cart(L) ==
    \E a \in DOMAIN users \cap L.buyers, e \in EventIds, r \in Known \cap L.sellers,
       p \in Prices, q \in Qtys :
        Step(add_to_cart(db, a, e, r, p, q), L, "add_to_cart", a, e, q, p, None, r)

Req_remove_cart(L) ==
    \E a \in DOMAIN users \cap L.buyers, i \in 1..MaxCart :
        Step(remove_cart(db, a, i), L, "remove_cart", a, None, None, None, None, i)

Req_checkout(L) ==
    \E a \in DOMAIN users \cap L.buyers :
        Step(checkout(db, a), L, "checkout", a, None, None, None, None, None)

Req_bulk_acquire(L) ==
    \E a \in DOMAIN users, e \in EventIds, q \in Qtys :
        Step(bulk_acquire(db, a, e, q), L, "bulk_acquire", a, e, q, None, None, None)

Req_bulk_list(L) ==
    \E a \in DOMAIN users, e \in EventIds, q \in Qtys, p \in Prices :
        Step(bulk_list(db, a, e, q, p), L, "bulk_list", a, e, q, p, None, None)

\* ---------------------------------------------------------------- Spec
\* Accounts, funding and events, from the seeded store: registration, staff
\* creation, account management, event creation, top-up and withdrawal.
SpecLimits ==
    [users |-> MaxUsers, events |-> MaxEvents, cart |-> 0, ledger |-> MaxLedger,
     record |-> {"toggle", "delete"}, buyers |-> {}, sellers |-> {}]

Next ==
    \/ Req_register(SpecLimits)
    \/ Req_create_staff(SpecLimits)
    \/ Req_toggle_user(SpecLimits)
    \/ Req_delete_user(SpecLimits)
    \/ Req_create_event(SpecLimits)
    \/ Req_wallet(SpecLimits)
    \/ Req_withdraw(SpecLimits)

Spec == Init /\ [][Next]_vars

\* ------------------------------------------------------- WholesaleSpec
\* The wholesale leg.  The run starts from the store these requests leave:
\* the admin creates two organizers (addresses 1 and 2) and organizer 1
\* creates a reseller (address 3), who tops up MaxAmount.
Staffed ==
    LET s1 == create_staff(Seeded, ADMIN_ROOT_AUTHORITY, "organizer").db
        s2 == create_staff(s1, ADMIN_ROOT_AUTHORITY, "organizer").db
        s3 == create_staff(s2, 1, "reseller").db
    IN wallet(s3, 3, MaxAmount).db

WholesaleInit == Load(Staffed)

WholesaleLimits ==
    [users |-> 3, events |-> MaxEvents, cart |-> 0, ledger |-> MaxWholesaleLedger,
     record |-> {"create_event", "bulk_acquire", "bulk_list"},
     buyers |-> {}, sellers |-> {}]

WholesaleNext ==
    \/ Req_create_event(WholesaleLimits)
    \/ Req_bulk_acquire(WholesaleLimits)
    \/ Req_bulk_list(WholesaleLimits)
    \/ Req_delete_user(WholesaleLimits)

WholesaleSpec == WholesaleInit /\ [][WholesaleNext]_vars

\* -------------------------------------------------------- CheckoutSpec
\* The retail leg.  The run starts from a store these requests leave: the
\* admin creates an organizer (address 1), who creates a reseller (address
\* 2); a customer registers (address 3); the organizer creates event 1 with
\* wholesale price 1, cap MaxPrice and MaxSupply tickets.  Then either the
\* customer tops up MaxAmount (Stocked), or the reseller tops up, acquires one
\* unit, lists it at the cap, and the customer tops up (Relisted).
Stocked ==
    LET s1 == create_staff(Seeded, ADMIN_ROOT_AUTHORITY, "organizer").db
        s2 == create_staff(s1, 1, "reseller").db
        s3 == register(s2).db
    IN create_event(s3, 1, 1, MaxPrice, MaxSupply).db

Relisted ==
    LET s1 == wallet(Stocked, 2, MaxAmount).db
        s2 == bulk_acquire(s1, 2, 1, 1).db
    IN bulk_list(s2, 2, 1, 1, MaxPrice).db

\* Or the customer tops up, buys one unit from the organizer and lists it at
\* the cap (Resold).
Resold ==
    LET s1 == wallet(Stocked, 3, MaxAmount).db
        s2 == add_to_cart(s1, 3, 1, 1, 1, 1).db
        s3 == checkout(s2, 3).db
    IN bulk_list(s3, 3, 1, 1, MaxPrice).db

CheckoutInit ==
    \/ \E s \in {Stocked, Relisted} : Load(wallet(s, 3, MaxAmount).db)
    \/ Load(Resold)

CheckoutLimits ==
    [users |-> 3, events |-> MaxEvents, cart |-> MaxCart, ledger |-> MaxCheckoutLedger,
     record |-> {"checkout"}, buyers |-> {3}, sellers |-> {1, 2, 3}]

CheckoutNext ==
    \/ Req_add_to_cart(CheckoutLimits)
    \/ Req_remove_cart(CheckoutLimits)
    \/ Req_checkout(CheckoutLimits)
    \/ Req_delete_user(CheckoutLimits)

CheckoutSpec == CheckoutInit /\ [][CheckoutNext]_vars

\* ----------------------------------------------------------- FundsSpec
\* Top-up and withdrawal by every role, from the store Stocked: the admin,
\* an organizer, a reseller and a customer, all with balance 0.
FundsInit == Load(Stocked)

FundsLimits ==
    [users |-> 3, events |-> MaxEvents, cart |-> 0, ledger |-> MaxFundsLedger,
     record |-> {"wallet", "withdraw"}, buyers |-> {}, sellers |-> {}]

FundsNext ==
    \/ Req_wallet(FundsLimits)
    \/ Req_withdraw(FundsLimits)

FundsSpec == FundsInit /\ [][FundsNext]_vars

\* ------------------------------------------------------------ CartSpec
\* Cart staging by the reseller and the customer of the store Stocked, who
\* name the organizer or the reseller as the source.
CartInit == Load(Stocked)

CartLimits ==
    [users |-> 3, events |-> MaxEvents, cart |-> MaxCart, ledger |-> MaxLedger,
     record |-> {"add_to_cart"}, buyers |-> {2, 3}, sellers |-> {1, 2}]

CartNext ==
    \/ Req_add_to_cart(CartLimits)
    \/ Req_remove_cart(CartLimits)

CartSpec == CartInit /\ [][CartNext]_vars

\* --------------------------------------------------------- AccountSpec
\* Staff creation and account management, from the store Staffed after a
\* customer has registered: the admin (0), two organizers (1, 2), a reseller
\* of organizer 1 (3) and a customer (4).
Peopled == register(Staffed).db

AccountInit == Load(Peopled)

AccountLimits ==
    [users |-> 4 + MaxStaff, events |-> MaxEvents, cart |-> 0, ledger |-> MaxLedger,
     record |-> {"create_staff", "toggle", "delete"}, buyers |-> {}, sellers |-> {}]

AccountNext ==
    \/ Req_create_staff(AccountLimits)
    \/ Req_toggle_user(AccountLimits)
    \/ Req_delete_user(AccountLimits)

AccountSpec == AccountInit /\ [][AccountNext]_vars

\* --------------------------------------------------------- BuybackSpec
\* The organizer on the retail side: from the store Stocked after the
\* organizer (1) and the reseller (2) have topped up MaxAmount, the organizer
\* stages and checks out units listed by the organizer, anyone lists, and
\* the reseller acquires wholesale.
Refunded ==
    LET s1 == wallet(Stocked, 1, MaxAmount).db
    IN wallet(s1, 2, MaxAmount).db

BuybackInit == Load(Refunded)

BuybackLimits ==
    [users |-> 3, events |-> MaxEvents, cart |-> 1, ledger |-> MaxCheckoutLedger,
     record |-> {"bulk_acquire"}, buyers |-> {1}, sellers |-> {1}]

BuybackNext ==
    \/ Req_add_to_cart(BuybackLimits)
    \/ Req_checkout(BuybackLimits)
    \/ Req_bulk_list(BuybackLimits)
    \/ Req_bulk_acquire(BuybackLimits)

BuybackSpec == BuybackInit /\ [][BuybackNext]_vars

\* ------------------------------------------------------------ RaceSpec
\* Requests served by concurrent threads: each runs its reads, and later
\* its writes and commit; other requests may do either in between.  The run
\* starts from the store these requests leave: the admin creates an
\* organizer (1), who creates a reseller (2); a customer registers (3); the
\* organizer creates event 1 with wholesale price 1 and a single ticket;
\* the reseller and the customer top up MaxAmount, and each stages that one
\* ticket, from the organizer at price 1, in the cart.
Contended ==
    LET s1 == create_staff(Seeded, ADMIN_ROOT_AUTHORITY, "organizer").db
        s2 == create_staff(s1, 1, "reseller").db
        s3 == register(s2).db
        s4 == create_event(s3, 1, 1, MaxPrice, 1).db
        s5 == wallet(s4, 2, MaxAmount).db
        s6 == wallet(s5, 3, MaxAmount).db
        s7 == add_to_cart(s6, 3, 1, 1, 1, 1).db
    IN add_to_cart(s7, 2, 1, 1, 1, 1).db

RaceInit == Load(Contended)

RaceLimits ==
    [users |-> 3, events |-> MaxEvents, cart |-> MaxCart, ledger |-> MaxRaceLedger,
     record |-> {}, buyers |-> {2, 3}, sellers |-> {1}]

RaceAmounts == {1, MaxAmount}

\* A request passes its reads and is held in a free slot.
Begin(r) ==
    /\ r.passed
    /\ \E i \in Slots :
          /\ inflight[i] = Free
          /\ \A j \in 1..(i - 1) : inflight[j] # Free
          /\ inflight' = [inflight EXCEPT ![i] = r.pending]
    /\ UNCHANGED store
    /\ last' = Idle

\* The request in slot i writes and commits (or rolls back): o is what it
\* leaves.
Commit(o, i) ==
    /\ Within(o.db, RaceLimits)
    /\ users' = o.db.users
    /\ nextAddr' = o.db.nextAddr
    /\ events' = o.db.events
    /\ tickets' = o.db.tickets
    /\ cart' = o.db.cart
    /\ ledger' = o.db.ledger
    /\ last' = Idle
    /\ inflight' = [inflight EXCEPT ![i] = Free]

Begin_checkout ==
    \E a \in DOMAIN users \cap RaceLimits.buyers : Begin(checkout_read(db, a))

Finish_checkout ==
    \E i \in Slots :
        /\ inflight[i].op = "checkout"
        /\ Commit(checkout_write(db, inflight[i]), i)

Begin_bulk_acquire ==
    \E a \in DOMAIN users, e \in 1..Len(events), q \in 1..MaxQty :
        Begin(bulk_acquire_read(db, a, e, q))

Finish_bulk_acquire ==
    \E i \in Slots :
        /\ inflight[i].op = "bulk_acquire"
        /\ Commit(bulk_acquire_write(db, inflight[i]), i)

Begin_wallet ==
    \E a \in DOMAIN users, amt \in RaceAmounts : Begin(wallet_read(db, a, amt))

Finish_wallet ==
    \E i \in Slots :
        /\ inflight[i].op = "wallet"
        /\ Commit(wallet_write(db, inflight[i]), i)

Begin_withdraw ==
    \E a \in DOMAIN users, amt \in RaceAmounts : Begin(withdraw_read(db, a, amt))

Finish_withdraw ==
    \E i \in Slots :
        /\ inflight[i].op = "withdraw"
        /\ Commit(withdraw_write(db, inflight[i]), i)

RaceNext ==
    \/ Begin_checkout
    \/ Finish_checkout
    \/ Begin_bulk_acquire
    \/ Finish_bulk_acquire
    \/ Begin_wallet
    \/ Finish_wallet
    \/ Begin_withdraw
    \/ Finish_withdraw

RaceSpec == RaceInit /\ [][RaceNext]_vars

\* ================================================================ claims
\* The tickets that are owned by owner, of event e_id, listed at price.
UnitsAt(owner, e_id, price) ==
    {t \in 1..Len(tickets) :
        /\ tickets[t].owner_address = owner
        /\ tickets[t].event_id = e_id
        /\ tickets[t].is_listed
        /\ tickets[t].listing_price = price}

\* The listed tickets of event e_id that owner holds, at any price.
ListedUnits(owner, e_id) ==
    {t \in 1..Len(tickets) :
        /\ tickets[t].owner_address = owner
        /\ tickets[t].event_id = e_id
        /\ tickets[t].is_listed}

\* The tickets a step changed.
Changed == {t \in 1..Len(tickets) : tickets'[t] # tickets[t]}

\* The ledger rows a step appended, when it only appended.
Appended == SubSeq(ledger', Len(ledger) + 1, Len(ledger'))
OnlyAppended == Len(ledger') >= Len(ledger) /\ SubSeq(ledger', 1, Len(ledger)) = ledger

\* The cart rows of principal a, and their cost.
RowsOf(a) == CartOf(cart, users[a].id)
RECURSIVE SumOver(_, _)
SumOver(S, f) ==
    IF S = {} THEN 0
    ELSE LET x == CHOOSE y \in S : TRUE IN f[x] + SumOver(S \ {x}, f)
Cost(rows) == SumOver(1..Len(rows), [i \in 1..Len(rows) |->
                  rows[i].quantity * rows[i].price_per_item])
Owed(rows, u) == SumOver(1..Len(rows), [i \in 1..Len(rows) |->
                  IF rows[i].reseller_address = u
                  THEN rows[i].quantity * rows[i].price_per_item ELSE 0])

\* ---------------------------------------------------------------- C1
\* The buyer cannot pay the cart, or some cart row cannot be filled with its
\* quantity of units listed by its source at its price.
CheckoutMustFail(a) ==
    \/ users[a].balance < Cost(RowsOf(a))
    \/ \E i \in 1..Len(RowsOf(a)) :
          Cardinality(UnitsAt(RowsOf(a)[i].reseller_address, RowsOf(a)[i].event_id,
                              RowsOf(a)[i].price_per_item)) < RowsOf(a)[i].quantity

\* C1: a checkout that must fail (the balance is below the cart total, or a
\* cart row cannot be filled) leaves every balance, every ticket, the ledger
\* and the cart exactly as they were.
C1_FailedCheckoutHasNoEffect ==
    [][(last'.op = "checkout" /\ CheckoutMustFail(last'.actor))
         => UNCHANGED store]_vars

\* A checkout has just failed on its second row after its first row could be
\* filled, with the buyer able to pay the whole cart.
C1_Witness ==
    /\ last.op = "checkout"
    /\ last.result = "failed"
    /\ LET rows == RowsOf(last.actor)
       IN /\ Len(rows) = 2
          /\ users[last.actor].balance >= Cost(rows)
          /\ rows[1].quantity >= 1
          /\ Cardinality(UnitsAt(rows[1].reseller_address, rows[1].event_id,
                                 rows[1].price_per_item)) >= rows[1].quantity
          /\ Cardinality(UnitsAt(rows[2].reseller_address, rows[2].event_id,
                                 rows[2].price_per_item)) < rows[2].quantity

\* ---------------------------------------------------------------- C8
\* The step is a committed checkout by buyer a of a cart whose rows all have
\* quantity >= 1.
PaidCheckout(a) ==
    /\ last'.op = "checkout"
    /\ last'.actor = a
    /\ last'.result = "ok"
    /\ \A i \in 1..Len(RowsOf(a)) : RowsOf(a)[i].quantity >= 1

\* The units the step moved for cart row r: they were listed by r's source
\* at r's price.
MovedFor(r) == Changed \cap UnitsAt(r.reseller_address, r.event_id, r.price_per_item)

\* C8: a successful checkout of rows (q_i, p_i, s_i), q_i >= 1, debits the
\* buyer by sum q_i*p_i, credits each source by its q_i*p_i, moves exactly
\* q_i units per row (units of the row's event that its source listed at its
\* price) to the buyer, unlisted and without price, appends one PURCHASE row
\* per moved unit carrying that unit's id, all with one correlation id, and
\* empties the buyer's cart.
C8_CheckoutSettlesEveryRow ==
    [][\A a \in DOMAIN users : PaidCheckout(a) =>
         LET rows == RowsOf(a) IN
         /\ DOMAIN users' = DOMAIN users
         /\ \A u \in DOMAIN users :
               users'[u].balance = users[u].balance
                                   - (IF u = a THEN Cost(rows) ELSE 0)
                                   + Owed(rows, u)
         /\ Len(tickets') = Len(tickets)
         /\ \A i \in 1..Len(rows) : Cardinality(MovedFor(rows[i])) = rows[i].quantity
         /\ \A t \in Changed :
               /\ \E i \in 1..Len(rows) : t \in MovedFor(rows[i])
               /\ tickets'[t] = [tickets[t] EXCEPT !.owner_address = a,
                                                   !.is_listed = FALSE,
                                                   !.listing_price = None]
         /\ OnlyAppended
         /\ Len(Appended) = SumOver(1..Len(rows), [i \in 1..Len(rows) |-> rows[i].quantity])
         /\ Len(Appended) = Cardinality(Changed)
         /\ {Appended[k].ticket_id : k \in 1..Len(Appended)} = Changed
         /\ \A k \in 1..Len(Appended) :
               /\ Appended[k].type = "PURCHASE"
               /\ Appended[k].tx_hash = Appended[1].tx_hash
               /\ Appended[k].to_address = a
               /\ Appended[k].from_address = tickets[Appended[k].ticket_id].owner_address
               /\ Appended[k].amount = tickets[Appended[k].ticket_id].listing_price
         /\ \A k \in 1..Len(ledger) : ledger[k].tx_hash # Appended[1].tx_hash
         /\ CartOf(cart', users'[a].id) = <<>>
         /\ SelectSeq(cart', LAMBDA r : r.user_id # users[a].id)
              = SelectSeq(cart, LAMBDA r : r.user_id # users[a].id)
      ]_vars

\* A checkout of two rows from two different sources has just committed: the
\* ledger ends with its two PURCHASE rows, and the buyer's cart is empty.
C8_Witness ==
    /\ last.op = "checkout"
    /\ last.result = "ok"
    /\ Len(ledger) >= 2
    /\ LET x == ledger[Len(ledger) - 1]
           y == ledger[Len(ledger)]
       IN /\ x.type = "PURCHASE" /\ y.type = "PURCHASE"
          /\ x.tx_hash = y.tx_hash
          /\ x.to_address = last.actor /\ y.to_address = last.actor
          /\ x.from_address # y.from_address
          /\ tickets[x.ticket_id].owner_address = last.actor
          /\ tickets[y.ticket_id].owner_address = last.actor
    /\ RowsOf(last.actor) = <<>>

\* ---------------------------------------------------------------- C5
\* C5: bulk_acquire by a caller who is not a reseller, or by a reseller whose
\* parent address is not the event's creator address, is refused and changes
\* nothing in the store, whatever the caller's balance and the stock.
C5_WholesaleOutsideHierarchyDenied ==
    [][(/\ last'.op = "bulk_acquire"
        /\ \/ users[last'.actor].role # "reseller"
           \/ /\ last'.evt \in 1..Len(events)
              /\ events[last'.evt].creator_address # users[last'.actor].parent_address)
         => /\ UNCHANGED store
            /\ last'.result \in {"denied", "unauthorized_source"}]_vars

\* A reseller who could pay for the quantity asked, of an event that has that
\* much listed stock and was created by another organizer than the
\* reseller's parent, has just been refused.
C5_Witness ==
    /\ last.op = "bulk_acquire"
    /\ last.result = "unauthorized_source"
    /\ users[last.actor].role = "reseller"
    /\ last.qty >= 1
    /\ events[last.evt].creator_address # users[last.actor].parent_address
    /\ users[last.actor].balance >= last.qty * events[last.evt].wholesale_price
    /\ Cardinality(ListedUnits(events[last.evt].creator_address, last.evt)) >= last.qty

\* ---------------------------------------------------------------- C7
\* The unlisted tickets of event e_id that owner holds.
UnlistedUnits(owner, e_id) ==
    {t \in 1..Len(tickets) :
        /\ tickets[t].owner_address = owner
        /\ tickets[t].event_id = e_id
        /\ ~tickets[t].is_listed}

\* C7: bulk_list at a price above the event's cap is refused and changes no
\* ticket; at a price equal to the cap it goes through, and the units it
\* selects (unlisted units of the caller in that event, min(quantity,
\* available) of them for a quantity >= 0) become listed at that price.
C7_ListingCapIsInclusive ==
    [][(last'.op = "bulk_list" /\ last'.evt \in 1..Len(events)) =>
         LET cap == events[last'.evt].max_resale_price
             mine == UnlistedUnits(last'.actor, last'.evt)
         IN /\ last'.price > cap =>
                 /\ UNCHANGED tickets
                 /\ last'.result = "cap_exceeded"
            /\ last'.price = cap =>
                 /\ last'.result = "ok"
                 /\ Changed \subseteq mine
                 /\ last'.qty >= 0 =>
                       Cardinality(Changed) = Min(last'.qty, Cardinality(mine))
                 /\ \A t \in Changed :
                       tickets'[t] = [tickets[t] EXCEPT !.is_listed = TRUE,
                                                        !.listing_price = cap]
      ]_vars

\* A reseller has just listed at exactly the cap, a price above the wholesale
\* price, and holds a unit listed at it.
C7_Witness ==
    /\ last.op = "bulk_list"
    /\ last.result = "ok"
    /\ last.qty >= 1
    /\ users[last.actor].role = "reseller"
    /\ last.price = events[last.evt].max_resale_price
    /\ last.price > events[last.evt].wholesale_price
    /\ UnitsAt(last.actor, last.evt, last.price) # {}

\* ---------------------------------------------------------------- C9
\* The caller is a reseller and the event was created by the caller's parent.
Permitted(a, e) ==
    /\ users[a].role = "reseller"
    /\ e \in 1..Len(events)
    /\ events[e].creator_address = users[a].parent_address

\* C9: a permitted bulk_acquire that finds fewer listed organizer-owned units
\* than the quantity asked, or a balance below quantity * wholesale price,
\* transfers nothing: balances, tickets and ledger stay as they were.
C9_WholesaleShortfallHasNoEffect ==
    [][(/\ last'.op = "bulk_acquire"
        /\ Permitted(last'.actor, last'.evt)
        /\ \/ Cardinality(ListedUnits(events[last'.evt].creator_address, last'.evt))
                < last'.qty
           \/ users[last'.actor].balance
                < last'.qty * events[last'.evt].wholesale_price)
         => /\ UNCHANGED store
            /\ last'.result \in {"insufficient_funds", "no_stock"}]_vars

\* A permitted reseller who could pay has just asked for more units than the
\* organizer has listed, with some units listed.
C9_Witness ==
    /\ last.op = "bulk_acquire"
    /\ last.result = "no_stock"
    /\ Permitted(last.actor, last.evt)
    /\ users[last.actor].balance >= last.qty * events[last.evt].wholesale_price
    /\ ListedUnits(events[last.evt].creator_address, last.evt) # {}
    /\ Cardinality(ListedUnits(events[last.evt].creator_address, last.evt)) < last.qty

\* --------------------------------------------------------------- C10
\* C10: a successful bulk_acquire(reseller, event, quantity) debits the
\* reseller by quantity * wholesale price, credits the organizer by as much,
\* moves exactly `quantity` listed organizer-owned units to the reseller,
\* unlisted and without price, and appends exactly `quantity` WHOLESALE rows,
\* one per unit, with one correlation id and the wholesale price as amount;
\* nothing else changes.
WholesaleEffect(a, e, q) ==
    LET org == events[e].creator_address
        cost == q * events[e].wholesale_price
    IN /\ DOMAIN users' = DOMAIN users
       /\ \A u \in DOMAIN users :
             users'[u] = [users[u] EXCEPT !.balance =
                            @ - (IF u = a THEN cost ELSE 0) + (IF u = org THEN cost ELSE 0)]
       /\ Len(tickets') = Len(tickets)
       /\ Changed \subseteq ListedUnits(org, e)
       /\ Cardinality(Changed) = q
       /\ \A t \in Changed : tickets'[t] = Ticket(e, a, FALSE, None)
       /\ OnlyAppended
       /\ Len(Appended) = q
       /\ {Appended[k].ticket_id : k \in 1..Len(Appended)} = Changed
       /\ \A k \in 1..Len(Appended) :
             /\ Appended[k].type = "WHOLESALE"
             /\ Appended[k].tx_hash = Appended[1].tx_hash
             /\ Appended[k].amount = events[e].wholesale_price
             /\ Appended[k].from_address = org
             /\ Appended[k].to_address = a
       /\ UNCHANGED <<events, cart, nextAddr>>

C10_WholesaleMovesExactlyQuantity ==
    [][(last'.op = "bulk_acquire" /\ last'.result = "ok")
         => WholesaleEffect(last'.actor, last'.evt, last'.qty)]_vars

\* The same statement for the quantities that are not negative.
C10_ForNonNegativeQuantity ==
    [][(last'.op = "bulk_acquire" /\ last'.result = "ok" /\ last'.qty >= 0)
         => WholesaleEffect(last'.actor, last'.evt, last'.qty)]_vars

\* ---------------------------------------------------------------- C2
\* The sum of the amounts of the ledger rows of one type.
LedgerSum(t_type) ==
    SumOver(1..Len(ledger), [k \in 1..Len(ledger) |->
               IF ledger[k].type = t_type THEN ledger[k].amount ELSE 0])

TotalBalance == SumOver(DOMAIN users, [a \in DOMAIN users |-> users[a].balance])

\* C2: value is conserved: the account balances add up to the TOPUP amounts
\* minus the WITHDRAW amounts of the ledger.
C2_ValueConserved == TotalBalance = LedgerSum("TOPUP") - LedgerSum("WITHDRAW")

\* ---------------------------------------------------------------- C3
\* C3: every account's balance is at least zero in every committed state.
C3_BalancesNonNegative == \A a \in DOMAIN users : users[a].balance >= 0

\* ---------------------------------------------------------------- C4
\* C4: every ticket is unlisted, or listed at a price that does not exceed
\* its event's maximum resale price.
C4_ListedWithinCap ==
    \A t \in 1..Len(tickets) :
        \/ ~tickets[t].is_listed
        \/ /\ tickets[t].listing_price # None
           /\ tickets[t].listing_price <= events[tickets[t].event_id].max_resale_price

\* ---------------------------------------------------------------- C6
\* Account t owns a ticket or is an endpoint of a ledger row.
HasHistory(t) ==
    \/ \E i \in 1..Len(tickets) : tickets[i].owner_address = t
    \/ \E k \in 1..Len(ledger) : ledger[k].from_address = t \/ ledger[k].to_address = t

\* C6: a delete request against an account that owns a ticket or is an
\* endpoint of a ledger row never removes the account.
C6_DeleteKeepsAccountsWithHistory ==
    [][(last'.op = "delete" /\ HasHistory(last'.target))
         => last'.target \in DOMAIN users']_vars

\* --------------------------------------------------------------- C11
\* What the claim says create_event(a, wholesale w, supply n) does: one more
\* event; n more tickets of it, owned by a and listed at w; exactly one more
\* ledger row, a MINT row with amount 0 and no ticket id; every account, the
\* earlier tickets and the carts as they were.
MintEffect(a, n, w) ==
    /\ Len(events') = Len(events) + 1
    /\ SubSeq(events', 1, Len(events)) = events
    /\ events'[Len(events')].creator_address = a
    /\ events'[Len(events')].wholesale_price = w
    /\ Len(tickets') = Len(tickets) + n
    /\ SubSeq(tickets', 1, Len(tickets)) = tickets
    /\ \A t \in (Len(tickets) + 1)..Len(tickets') :
          tickets'[t] = Ticket(Len(events'), a, TRUE, w)
    /\ OnlyAppended
    /\ Len(Appended) = 1
    /\ Appended[1].type = "MINT"
    /\ Appended[1].amount = 0
    /\ Appended[1].ticket_id = None
    /\ Appended[1].to_address = a
    /\ UNCHANGED <<users, cart>>

\* C11: create_event by an organizer, with any supply, creates exactly
\* `supply` tickets owned by the organizer and listed at the wholesale price,
\* appends exactly one MINT row (amount 0, no ticket id) and changes no
\* balance; by any other role it is refused and changes nothing.
C11_MintCreatesSupplyAndOneEntry ==
    [][last'.op = "create_event" =>
         IF users[last'.actor].role = "organizer"
         THEN last'.result = "ok" /\ MintEffect(last'.actor, last'.qty, last'.price)
         ELSE last'.result = "denied" /\ UNCHANGED store]_vars

\* The same statement for the supplies of at least one ticket.
C11_ForPositiveSupply ==
    [][(last'.op = "create_event" /\ last'.qty >= 1) =>
         IF users[last'.actor].role = "organizer"
         THEN last'.result = "ok" /\ MintEffect(last'.actor, last'.qty, last'.price)
         ELSE last'.result = "denied" /\ UNCHANGED store]_vars

\* --------------------------------------------------------------- C12
\* C12: a withdraw by an organizer for an amount that does not exceed the
\* balance debits exactly the amount and appends exactly one WITHDRAW row
\* (so withdrawing the full balance leaves zero); a withdraw by another role,
\* or for more than the balance, leaves every balance and the ledger as they
\* were.
C12_WithdrawOnlyOrganizerWithinBalance ==
    [][last'.op = "withdraw" =>
         LET a == last'.actor
             amt == last'.amt
         IN IF users[a].role = "organizer" /\ amt <= users[a].balance
            THEN /\ last'.result = "ok"
                 /\ users' = [users EXCEPT ![a].balance = @ - amt]
                 /\ amt = users[a].balance => users'[a].balance = 0
                 /\ OnlyAppended
                 /\ Len(Appended) = 1
                 /\ Appended[1].type = "WITHDRAW"
                 /\ Appended[1].amount = amt
                 /\ Appended[1].from_address = a
                 /\ Appended[1].to_address = BANK
                 /\ UNCHANGED <<events, tickets, cart>>
            ELSE /\ last'.result \in {"denied", "insufficient_funds"}
                 /\ UNCHANGED store]_vars

\* An organizer has just withdrawn a positive amount that was the whole
\* balance: the balance is zero and the ledger ends with the WITHDRAW row.
C12_Witness ==
    /\ last.op = "withdraw"
    /\ last.result = "ok"
    /\ last.amt > 0
    /\ users[last.actor].role = "organizer"
    /\ users[last.actor].balance = 0
    /\ ledger[Len(ledger)].type = "WITHDRAW"
    /\ ledger[Len(ledger)].amount = last.amt

\* --------------------------------------------------------------- C17
\* What a top-up of amt by a does: a's balance grows by amt, one TOPUP row
\* with destination a is appended, nothing else changes.
TopUpEffect(a, amt) ==
    /\ users' = [users EXCEPT ![a].balance = @ + amt]
    /\ OnlyAppended
    /\ Len(Appended) = 1
    /\ Appended[1].type = "TOPUP"
    /\ Appended[1].amount = amt
    /\ Appended[1].from_address = BANK
    /\ Appended[1].to_address = a
    /\ UNCHANGED <<events, tickets, cart>>

\* C17: a top-up with a positive amount credits exactly that amount to the
\* caller and appends exactly one TOPUP row to that account; a top-up with a
\* zero or negative amount changes no balance and not the ledger.
C17_TopUpRequiresPositiveAmount ==
    [][last'.op = "wallet" =>
         IF last'.amt > 0
         THEN TopUpEffect(last'.actor, last'.amt)
         ELSE UNCHANGED <<users, ledger>>]_vars

\* The same statement for the positive amounts.
C17_ForPositiveAmount ==
    [][(last'.op = "wallet" /\ last'.amt > 0)
         => TopUpEffect(last'.actor, last'.amt)]_vars

\* --------------------------------------------------------------- C13
\* The cart rows of user id uid for the tuple (event e, source src, price p).
LinesFor(uid, e, src, p) ==
    {i \in 1..Len(cart) :
        /\ cart[i].user_id = uid
        /\ cart[i].event_id = e
        /\ cart[i].reseller_address = src
        /\ cart[i].price_per_item = p}

\* What the claim says add_to_cart(a, e, src, p, q) does: the row of exactly
\* that tuple gains q; when there is none, a new row is appended and every
\* existing row stays as it was.
AddLineEffect(a, e, src, p, q) ==
    LET uid == users[a].id
        hits == LinesFor(uid, e, src, p)
    IN IF hits = {}
       THEN cart' = Append(cart, CartItem(uid, e, src, q, p))
       ELSE \E i \in hits : cart' = [cart EXCEPT ![i].quantity = @ + q]

\* C13: a cart holds at most one row per (event, source, price); adding a
\* tuple that is there adds to that row's quantity; adding a tuple that
\* differs in event, source or price from every row creates a new row and
\* changes no existing row.
C13_CartLinePerEventSourcePrice ==
    [][last'.op = "add_to_cart" =>
         AddLineEffect(last'.actor, last'.evt, last'.target, last'.price, last'.qty)]_vars

\* The same statement for the requests whose (event, price) is in the cart
\* under no other source.
C13_ForOneSourcePerPrice ==
    [][(/\ last'.op = "add_to_cart"
        /\ \A i \in 1..Len(cart) :
              (/\ cart[i].user_id = users[last'.actor].id
               /\ cart[i].event_id = last'.evt
               /\ cart[i].price_per_item = last'.price)
                 => cart[i].reseller_address = last'.target)
         => AddLineEffect(last'.actor, last'.evt, last'.target, last'.price, last'.qty)]_vars

\* --------------------------------------------------------------- C14
\* What the claim says create_staff(a, role r) does: for an admin creating
\* an organizer, or an organizer creating a reseller, one new account with
\* role r, balance zero and parent a; for every other pair nothing.
StaffEffect(a, r) ==
    IF \/ users[a].role = "admin" /\ r = "organizer"
       \/ users[a].role = "organizer" /\ r = "reseller"
    THEN /\ last'.result = "ok"
         /\ DOMAIN users' = DOMAIN users \cup {nextAddr}
         /\ nextAddr \notin DOMAIN users
         /\ \A u \in DOMAIN users : users'[u] = users[u]
         /\ users'[nextAddr].role = r
         /\ users'[nextAddr].balance = 0
         /\ users'[nextAddr].parent_address = a
         /\ UNCHANGED <<events, tickets, cart, ledger>>
    ELSE /\ last'.result = "denied"
         /\ UNCHANGED store

\* Every reseller's parent is an organizer account and every organizer's
\* parent is an admin account.
StaffHierarchy ==
    \A a \in DOMAIN users :
        /\ users[a].role = "reseller" =>
              /\ users[a].parent_address \in DOMAIN users
              /\ users[users[a].parent_address].role = "organizer"
        /\ users[a].role = "organizer" =>
              /\ users[a].parent_address \in DOMAIN users
              /\ users[users[a].parent_address].role = "admin"

\* C14: create_staff succeeds only for admin -> organizer and organizer ->
\* reseller and gives the new account balance zero and the creator as parent;
\* and in every reachable state each reseller's parent is an organizer and
\* each organizer's parent is an admin.
C14_StaffTree ==
    [][/\ last'.op = "create_staff" => StaffEffect(last'.actor, last'.target)
       /\ StaffHierarchy']_vars

\* The first half of the statement: who may create which staff account, and
\* what the created account looks like.
C14_CreateStaffPermission ==
    [][last'.op = "create_staff" => StaffEffect(last'.actor, last'.target)]_vars

\* --------------------------------------------------------------- C15
\* The actor/target pairs the claim permits.
MayManage(a, t) ==
    \/ users[a].role = "admin" /\ users[t].role = "organizer"
    \/ /\ users[a].role = "organizer"
       /\ users[t].role = "reseller"
       /\ users[t].parent_address = a

\* C15: a toggle or delete request by a permitted actor/target pair takes
\* effect (a toggle flips the target's active flag); for every other pair it
\* is denied and changes nothing: the target exists as before, with the
\* active flag it had.
C15_ManageOnlyWithinHierarchy ==
    [][last'.op \in {"toggle", "delete"} =>
         LET a == last'.actor
             t == last'.target
         IN IF MayManage(a, t)
            THEN /\ last'.result # "denied"
                 /\ last'.op = "toggle" =>
                       users' = [users EXCEPT ![t].is_active = ~@]
                 /\ \A u \in DOMAIN users \ {t} :
                       u \in DOMAIN users' /\ users'[u] = users[u]
            ELSE /\ last'.result = "denied"
                 /\ UNCHANGED store]_vars

\* An organizer has just been denied against a reseller of another
\* organizer, who is still there.
C15_Witness ==
    /\ last.op \in {"toggle", "delete"}
    /\ last.result = "denied"
    /\ users[last.actor].role = "organizer"
    /\ last.target \in DOMAIN users
    /\ users[last.target].role = "reseller"
    /\ users[last.target].parent_address # last.actor
    /\ users[last.target].parent_address \in DOMAIN users

\* --------------------------------------------------------------- C16
\* C16: a wholesale acquisition or a listing request with a negative
\* quantity is rejected before any mutation: no balance, ticket, cart row
\* or ledger row changes.
C16_NegativeQuantityRejected ==
    [][(last'.op \in {"bulk_acquire", "bulk_list"} /\ last'.qty < 0)
         => UNCHANGED store]_vars

\* --------------------------------------------------------------- C18
\* C18: the ledger is append-only: every step leaves the rows that were
\* there in place and unchanged, and at most adds rows after them.
C18_LedgerAppendOnly == [][OnlyAppended]_vars

\* A checkout has just failed and was rolled back, in a store whose ledger
\* names an account that has been deleted; the rows are still there.
C18_Witness ==
    /\ last.op = "checkout"
    /\ last.result = "failed"
    /\ Len(ledger) >= 2
    /\ \E k \in 1..Len(ledger) :
          /\ ledger[k].to_address \notin DOMAIN users
          /\ ledger[k].to_address \notin {BANK, SYSTEM}

\* --------------------------------------------------------------- C19
\* The holder of the unit of ledger row k just before that row: the
\* destination of the latest earlier row of the unit, or the event's creator
\* when there is none.
PrevOwner(k) ==
    LET t == ledger[k].ticket_id
        earlier == {j \in 1..(k - 1) : ledger[j].ticket_id = t}
    IN IF earlier = {} THEN events[tickets[t].event_id].creator_address
       ELSE ledger[MaxOf(earlier)].to_address

\* Every unit-level ledger row moves its unit away from the account that
\* held it, and the unit's owner is the destination of its latest row.
SoldByHolder ==
    /\ \A k \in 1..Len(ledger) :
          ledger[k].ticket_id # None => ledger[k].from_address = PrevOwner(k)
    /\ \A t \in 1..Len(tickets) :
          LET rows == {k \in 1..Len(ledger) : ledger[k].ticket_id = t}
          IN rows # {} => tickets[t].owner_address = ledger[MaxOf(rows)].to_address

\* C19: requests that contend for the same listed units behave as if
\* strictly ordered: no unit is paid for by two buyers; every payment for a
\* unit is made to the account that held it and moves it to the payer, who
\* stays its owner until the unit's next ledger row.
C19_ContendedUnitsSoldOnce == SoldByHolder

\* The same statement for the runs in which only checkouts took units.
C19_ForCheckoutsAlone ==
    (\A k \in 1..Len(ledger) : ledger[k].type # "WHOLESALE") => SoldByHolder

\* --------------------------------------------------------------- C20
\* The balance the ledger gives account a: top-ups minus withdrawals, plus
\* what a was paid for units, minus what a paid for units.
Replay(a) ==
    SumOver(1..Len(ledger), [k \in 1..Len(ledger) |->
        CASE ledger[k].type = "TOPUP" /\ ledger[k].to_address = a -> ledger[k].amount
          [] ledger[k].type = "WITHDRAW" /\ ledger[k].from_address = a -> 0 - ledger[k].amount
          [] ledger[k].type \in {"PURCHASE", "WHOLESALE"} ->
                (IF ledger[k].from_address = a THEN ledger[k].amount ELSE 0)
                - (IF ledger[k].to_address = a THEN ledger[k].amount ELSE 0)
          [] OTHER -> 0])

\* C20: balance-changing requests on one account behave as if run one after
\* the other: no credit or debit is lost, so every balance is what the
\* committed ledger rows add up to.
C20_NoUpdateLost == \A a \in DOMAIN users : users[a].balance = Replay(a)

\* --------------------------------------------------------------- C21
\* The unit-level ledger rows (WHOLESALE or PURCHASE) of ticket t.
UnitRows(t) ==
    {k \in 1..Len(ledger) :
        ledger[k].ticket_id = t /\ ledger[k].type \in {"WHOLESALE", "PURCHASE"}}

\* C21: ownership and ledger agree: a ticket with unit-level rows is owned
\* by the destination of the latest one, and every such row's source is the
\* account that held the ticket just before it; a ticket with none is owned
\* by its event's creator.
C21_OwnerMatchesLedger ==
    /\ \A t \in 1..Len(tickets) :
          IF UnitRows(t) = {}
          THEN tickets[t].owner_address = events[tickets[t].event_id].creator_address
          ELSE tickets[t].owner_address = ledger[MaxOf(UnitRows(t))].to_address
    /\ \A k \in 1..Len(ledger) :
          ledger[k].type \in {"WHOLESALE", "PURCHASE"}
             => ledger[k].from_address = PrevOwner(k)

\* The second wording of the claim: a step changes the owner of a ticket if
\* and only if it appends a ledger row for that ticket.
C21_OwnerChangesWithEntry ==
    [][/\ OnlyAppended
       /\ Len(tickets') >= Len(tickets)
       /\ \A t \in 1..Len(tickets) :
             (tickets'[t].owner_address # tickets[t].owner_address)
               <=> (\E k \in 1..Len(Appended) : Appended[k].ticket_id = t)]_vars

\* The second wording for the steps whose appended rows have different
\* source and destination.
C21_ForSalesToAnother ==
    [][(/\ OnlyAppended
        /\ \A k \in 1..Len(Appended) : Appended[k].from_address # Appended[k].to_address)
         => /\ Len(tickets') >= Len(tickets)
            /\ \A t \in 1..Len(tickets) :
                  (tickets'[t].owner_address # tickets[t].owner_address)
                    <=> (\E k \in 1..Len(Appended) : Appended[k].ticket_id = t)]_vars

\* --------------------------------------------------------------- C22
\* C22: every listed ticket that its event's creator owns is listed at the
\* event's wholesale price.
C22_IssuerStockAtWholesale ==
    \A t \in 1..Len(tickets) :
        (/\ tickets[t].is_listed
         /\ tickets[t].owner_address = events[tickets[t].event_id].creator_address)
          => tickets[t].listing_price = events[tickets[t].event_id].wholesale_price

\* The consequence the claim draws: every unit a wholesale acquisition takes
\* was listed at the wholesale price charged for it.
C22_WholesaleTakesWholesaleStock ==
    [][(last'.op = "bulk_acquire" /\ last'.result = "ok") =>
         \A t \in Changed :
            tickets[t].listing_price = events[last'.evt].wholesale_price]_vars

====
